---- MODULE Spec2Model ----
(***************************************************************************)
(* Internship recommender: education filter, TF-IDF vector spaces, scoring *)
(* engine, ranker (app/recommender.py) and the /recommend endpoint with    *)
(* its optional language-generation refinement (app/api.py).               *)
(*                                                                         *)
(* Text is modelled as sequences of one-character strings, so that the     *)
(* string operations of the code (lower, strip, split, replace, substring  *)
(* tests) are computed rather than assumed.  Real numbers are fixed point: *)
(* similarities and education grades in thousandths (0..1000), the         *)
(* combined percentage in thousandths of a percent (0..100000).            *)
(***************************************************************************)
EXTENDS Integers, Sequences, FiniteSets

\* ------------------------------------------------------------------ text

Upper == <<"A","B","C","D","E","F","G","H","I","J","K","L","M",
           "N","O","P","Q","R","S","T","U","V","W","X","Y","Z">>

LowerOfUpper == <<"a","b","c","d","e","f","g","h","i","j","k","l","m",
                  "n","o","p","q","r","s","t","u","v","w","x","y","z">>

Digits == {"0","1","2","3","4","5","6","7","8","9"}

LowerChar(c) ==
  IF \E i \in DOMAIN Upper : Upper[i] = c
  THEN LowerOfUpper[CHOOSE i \in DOMAIN Upper : Upper[i] = c]
  ELSE c

\* str.lower()
Lower(s) == [i \in DOMAIN s |-> LowerChar(s[i])]

IsSpace(c) == c = " "

\* \w of the default token pattern, on lowercased text
IsWordChar(c) ==
  \/ \E i \in DOMAIN LowerOfUpper : LowerOfUpper[i] = c
  \/ c \in Digits
  \/ c = "_"

RECURSIVE LStrip(_)
LStrip(s) ==
  IF s = <<>> THEN <<>>
  ELSE IF IsSpace(Head(s)) THEN LStrip(Tail(s)) ELSE s

RECURSIVE RStrip(_)
RStrip(s) ==
  IF s = <<>> THEN <<>>
  ELSE IF IsSpace(s[Len(s)]) THEN RStrip(SubSeq(s, 1, Len(s) - 1)) ELSE s

\* str.strip()
Strip(s) == RStrip(LStrip(s))

\* str.replace(a, b) for one-character a and any b
RECURSIVE Replace(_, _, _)
Replace(s, a, b) ==
  IF s = <<>> THEN <<>>
  ELSE (IF Head(s) = a THEN b ELSE <<Head(s)>>) \o Replace(Tail(s), a, b)

\* the pieces between separators, empty pieces included (str.split(sep), re.split)
RECURSIVE SplitAcc(_, _, _)
SplitAcc(s, seps, cur) ==
  IF s = <<>> THEN <<cur>>
  ELSE IF Head(s) \in seps
       THEN <<cur>> \o SplitAcc(Tail(s), seps, <<>>)
       ELSE SplitAcc(Tail(s), seps, Append(cur, Head(s)))

SplitOn(s, seps) == SplitAcc(s, seps, <<>>)

RECURSIVE NonEmpty(_)
NonEmpty(parts) ==
  IF parts = <<>> THEN <<>>
  ELSE (IF Head(parts) = <<>> THEN <<>> ELSE <<Head(parts)>>) \o NonEmpty(Tail(parts))

\* str.split() with no argument: split on whitespace, no empty pieces
SplitWS(s) == NonEmpty(SplitOn(s, {" "}))

\* sep.join(parts)
RECURSIVE Join(_, _)
Join(parts, sep) ==
  IF parts = <<>> THEN <<>>
  ELSE IF Len(parts) = 1 THEN Head(parts)
  ELSE Head(parts) \o sep \o Join(Tail(parts), sep)

\* Python's `a in b` on strings (the empty string is in every string)
Contains(a, b) ==
  \E i \in 0..(Len(b) - Len(a)) : SubSeq(b, i + 1, i + Len(a)) = a

StartsWith(s, p) == Len(s) >= Len(p) /\ SubSeq(s, 1, Len(p)) = p

Range(seq) == {seq[i] : i \in DOMAIN seq}

\* first occurrences only, order kept
RECURSIVE Dedup(_)
Dedup(seq) ==
  IF seq = <<>> THEN <<>>
  ELSE LET r == Dedup(SubSeq(seq, 1, Len(seq) - 1))
           x == seq[Len(seq)]
       IN IF x \in Range(r) THEN r ELSE Append(r, x)

Reverse(seq) == [i \in DOMAIN seq |-> seq[Len(seq) + 1 - i]]

Max2(a, b) == IF a >= b THEN a ELSE b

Min2(a, b) == IF a <= b THEN a ELSE b

\* ------------------------------------------------------- education tiers

EDU_undergraduate ==
  { <<"b",".","t","e","c","h">>, <<"b","t","e","c","h">>, <<"b",".","e">>, <<"b","e">>,
    <<"b",".","s","c">>, <<"b","s","c">>, <<"b",".","a">>, <<"b","a">>, <<"b","b","a">>,
    <<"b","c","o","m">>, <<"b",".","c","o","m">>, <<"b","c","a">>,
    <<"b","a","c","h","e","l","o","r">>, <<"b","a","c","h","e","l","o","r","s">> }

EDU_postgraduate ==
  { <<"m",".","t","e","c","h">>, <<"m","t","e","c","h">>, <<"m",".","s","c">>, <<"m","s","c">>,
    <<"m",".","a">>, <<"m","a">>, <<"m","b","a">>, <<"m","c","o","m">>,
    <<"m","a","s","t","e","r","s">>, <<"m","a","s","t","e","r">> }

EDU_phd ==
  { <<"p","h","d">>, <<"d","o","c","t","o","r">>, <<"d","o","c","t","o","r","a","l">> }

K_undergraduate == <<"u","n","d","e","r","g","r","a","d","u","a","t","e">>

K_post_graduate == <<"p","o","s","t"," ","g","r","a","d","u","a","t","e">>

K_postgraduate == <<"p","o","s","t","g","r","a","d","u","a","t","e">>

K_phd == <<"p","h","d">>

K_any == <<"a","n","y">>

K_any_graduate == <<"a","n","y"," ","g","r","a","d","u","a","t","e">>

K_any_degree == <<"a","n","y"," ","d","e","g","r","e","e">>

\* EDU_GROUPS in its insertion order: (group name, group tokens)
EDU_GROUPS ==
  << [name |-> K_undergraduate, tokens |-> EDU_undergraduate],
     [name |-> K_post_graduate, tokens |-> EDU_postgraduate],
     [name |-> K_phd, tokens |-> EDU_phd] >>

normalize_edu_string(s) ==
  IF s = <<>> THEN <<>>
  ELSE LET l == Lower(s)
           r == Replace(Replace(Replace(l, ".", <<" ">>), "/", <<" ">>), "-", <<" ">>)
       IN Strip(Join(SplitWS(r), <<" ">>))

\* The tokens of a requirement.  The code builds a Python set; it is kept
\* here as the sequence of distinct tokens in the order a loop over the set
\* visits them, which the interpreter's string hashing decides: `order` 0 is
\* the order of first occurrence, 1 its reverse.
internship_edu_tokens_in(intern_req_edu, order) ==
  LET r == normalize_edu_string(intern_req_edu)
      parts == Dedup(SplitWS(Replace(r, ",", <<" ">>)))
  IN IF order = 0 THEN parts ELSE Reverse(parts)

internship_edu_tokens(intern_req_edu) ==
  Range(internship_edu_tokens_in(intern_req_edu, 0))

token_to_rank(token) ==
  IF token = <<>> THEN 0
  ELSE LET t == Strip(Lower(token)) IN
    IF t \in {K_any, K_any_degree, K_any_graduate} THEN 0
    ELSE IF Contains(<<"1","0">>, t) THEN 1
    ELSE IF Contains(<<"1","2">>, t) THEN 2
    ELSE IF t \in EDU_undergraduate THEN 3
    ELSE IF t \in EDU_postgraduate THEN 4
    ELSE IF t \in EDU_phd THEN 5
    ELSE IF SubSeq(t, 1, Min2(1, Len(t))) = <<"b">> \/ Contains(<<"b","a","c","h">>, t) THEN 3
    ELSE IF SubSeq(t, 1, Min2(1, Len(t))) = <<"m">>
            \/ Contains(<<"m","a","s","t","e","r">>, t) THEN 4
    ELSE IF Contains(<<"p","h","d">>, t) \/ Contains(<<"d","o","c","t","o","r">>, t) THEN 5
    ELSE 3

internship_required_rank(intern_req_edu) ==
  IF intern_req_edu = <<>> \/ Lower(Strip(intern_req_edu)) \in {K_any, <<>>} THEN 0
  ELSE LET toks == internship_edu_tokens(intern_req_edu) IN
    IF toks = {} THEN 0
    ELSE CHOOSE m \in {token_to_rank(t) : t \in toks} :
           \A n \in {token_to_rank(t) : t \in toks} : n <= m

\* the loop of candidate_rank_from_string over the descriptor's tokens: the
\* first token that matches a rule decides
RECURSIVE candidate_rank_loop(_)
candidate_rank_loop(toks) ==
  IF toks = <<>> THEN 3
  ELSE LET t == Head(toks) IN
    IF t \in EDU_postgraduate \/ SubSeq(t, 1, 1) = <<"m">>
       \/ Contains(<<"m","a","s","t","e","r">>, t) THEN 4
    ELSE IF t \in EDU_undergraduate \/ StartsWith(t, <<"b">>)
            \/ Contains(<<"b","a","c","h","e","l","o","r">>, t) THEN 3
    ELSE IF Contains(<<"p","h","d">>, t) \/ Contains(<<"d","o","c","t","o","r">>, t) THEN 5
    ELSE IF Contains(<<"1","0">>, t) THEN 1
    ELSE IF Contains(<<"1","2">>, t) THEN 2
    ELSE candidate_rank_loop(Tail(toks))

\* a variant that gives an absent descriptor the default rank of the loop
candidate_rank_defaulted(candidate_edu_string) ==
  candidate_rank_loop(SplitWS(Strip(Lower(candidate_edu_string))))

candidate_rank_from_string(candidate_edu_string) ==
  IF candidate_edu_string = <<>> THEN 0
  ELSE LET s == Strip(Lower(candidate_edu_string)) IN
    IF s = K_undergraduate THEN 3
    ELSE IF s \in {K_post_graduate, K_postgraduate} THEN 4
    ELSE IF s \in EDU_phd THEN 5
    ELSE candidate_rank_loop(
           SplitWS(Replace(Replace(s, ".", <<" ">>), "/", <<" ">>)))

\* the first loop of education_match_score over the requirement's tokens:
\* 1000 on an exact token, 800 on substring overlap, -1 when no token matches
RECURSIVE edu_token_loop(_, _)
edu_token_loop(cand_token, toks) ==
  IF toks = <<>> THEN -1
  ELSE LET t == Head(toks) IN
    IF cand_token = Replace(t, " ", <<>>) THEN 1000
    ELSE IF Contains(cand_token, t) \/ Contains(t, cand_token) THEN 800
    ELSE edu_token_loop(cand_token, Tail(toks))

\* the second loop, over EDU_GROUPS in insertion order
RECURSIVE edu_group_loop(_, _, _)
edu_group_loop(cand, toks, groups) ==
  IF groups = <<>> THEN 0
  ELSE LET g == Head(groups) IN
    IF \E t \in Range(toks) :
         \/ t \in g.tokens
         \/ \E gt \in g.tokens : Contains(gt, t) \/ Contains(t, gt)
    THEN (IF Contains(cand, g.name) THEN 1000 ELSE 500)
    ELSE edu_group_loop(cand, toks, Tail(groups))

\* a variant that grades an absent descriptor like the tier filter does
education_match_strict(candidate_edu, intern_req_edu, order) ==
  IF normalize_edu_string(candidate_edu) = <<>> THEN 0
  ELSE IF Lower(Strip(intern_req_edu)) \in {<<>>, K_any, K_any_graduate, K_any_degree}
       THEN 1000
       ELSE 500

\* education_match_score, in thousandths; `order` is the iteration order of
\* the token set (see internship_edu_tokens_in)
education_match_score(candidate_edu, intern_req_edu, order) ==
  LET intern_req == Lower(Strip(intern_req_edu)) IN
  IF intern_req = <<>> \/ intern_req \in {K_any, K_any_graduate, K_any_degree} THEN 1000
  ELSE
    LET cand == normalize_edu_string(candidate_edu)
        toks == internship_edu_tokens_in(intern_req, order)
    IN
    IF cand = <<>> THEN 1000
    ELSE IF \E g \in Range(EDU_GROUPS) : g.name = cand
    THEN LET group == (CHOOSE g \in Range(EDU_GROUPS) : g.name = cand).tokens IN
         IF \E t \in Range(toks) : t \in group THEN 1000
         ELSE IF \E t \in Range(toks) : \E g \in group : Contains(g, t) \/ Contains(t, g)
              THEN 1000
              ELSE 0
    ELSE LET first == edu_token_loop(Replace(cand, " ", <<>>), toks) IN
         IF first # -1 THEN first
         ELSE edu_group_loop(cand, toks, EDU_GROUPS)

\* ----------------------------------------------------------- tokenizers

\* skill_tokenizer after the vectorizer's lowercasing
skill_tokenizer(s) ==
  LET parts == SplitOn(Lower(s), {","})
  IN NonEmpty([i \in DOMAIN parts |-> Strip(parts[i])])

\* maximal runs of word characters
RECURSIVE WordRuns(_, _)
WordRuns(s, cur) ==
  IF s = <<>> THEN <<cur>>
  ELSE IF IsWordChar(Head(s))
       THEN WordRuns(Tail(s), Append(cur, Head(s)))
       ELSE <<cur>> \o WordRuns(Tail(s), <<>>)

RECURSIVE AtLeastTwo(_)
AtLeastTwo(ws) ==
  IF ws = <<>> THEN <<>>
  ELSE (IF Len(Head(ws)) >= 2 THEN <<Head(ws)>> ELSE <<>>) \o AtLeastTwo(Tail(ws))

\* the description vectorizer's analyzer: lowercase, words of two or more
\* word characters, then the words followed by the adjacent pairs
desc_analyzer(s) ==
  LET ws == AtLeastTwo(WordRuns(Lower(s), <<>>))
  IN ws \o [i \in 1..(Len(ws) - 1) |-> ws[i] \o <<" ">> \o ws[i + 1]]

\* ---------------------------------------------------------------- TF-IDF

\* 10 * ln(k), rounded, for k = 1..24
LnDeci == << 0, 7, 11, 14, 16, 18, 19, 21, 22, 23, 24, 25,
             26, 26, 27, 28, 28, 29, 29, 30, 30, 31, 31, 32 >>

\* smoothed inverse document frequency ln((1+n)/(1+df)) + 1, in tenths
Idf(n, df) == LnDeci[1 + n] - LnDeci[1 + df] + 10

Count(tokens, t) == Cardinality({i \in DOMAIN tokens : tokens[i] = t})

\* a fitted vectorizer: the vocabulary with each term's idf.  When no
\* document yields a term the vocabulary is empty, and fit_transform raises
\* ValueError("empty vocabulary; ...") (see build_tfidf).
FitVectorizer(docs) ==
  LET vocab == UNION {Range(docs[i]) : i \in DOMAIN docs}
      n == Len(docs)
  IN [t \in vocab |->
        Idf(n, Cardinality({i \in DOMAIN docs : t \in Range(docs[i])}))]

\* one row of a document-term matrix: term -> tf * idf (out-of-vocabulary
\* tokens are dropped; rows are compared by cosine, so their unit-length
\* normalisation is left to CosineSimilarity)
Transform(vec, tokens) == [t \in DOMAIN vec |-> Count(tokens, t) * vec[t]]

RECURSIVE SumOver(_, _)
SumOver(f, S) ==
  IF S = {} THEN 0
  ELSE LET x == CHOOSE y \in S : TRUE IN f[x] + SumOver(f, S \ {x})

Dot(a, b) ==
  LET common == DOMAIN a \cap DOMAIN b
  IN SumOver([t \in common |-> a[t] * b[t]], common)

\* the least r with r * r >= n, by bisection on lo < r <= hi
RECURSIVE CeilSqrtIn(_, _, _)
CeilSqrtIn(n, lo, hi) ==
  IF hi - lo <= 1 THEN hi
  ELSE LET mid == (lo + hi) \div 2
       IN IF mid * mid >= n THEN CeilSqrtIn(n, lo, mid) ELSE CeilSqrtIn(n, mid, hi)

CeilSqrt(n) == IF n = 0 THEN 0 ELSE CeilSqrtIn(n, 0, 46340)

\* cosine similarity of two rows in thousandths; 0 against a zero row
CosineSimilarity(a, b) ==
  LET d == Dot(a, b)
      p == Dot(a, a) * Dot(b, b)
  IN IF p = 0 THEN 0 ELSE (1000 * d) \div CeilSqrt(p)

\* --------------------------------------------------------------- weights

\* a variant with the same weight for every signal
WEIGHTS_flat ==
  [skill_sim |-> 20, desc_sim |-> 20, sector |-> 20, location |-> 20, education |-> 20]

\* WEIGHTS as written, in hundredths
WEIGHTS_raw ==
  [skill_sim |-> 60, desc_sim |-> 10, sector |-> 12, location |-> 10, education |-> 8]

WeightKeys == {"skill_sim", "desc_sim", "sector", "location", "education"}

\* a variant that leaves the weights as written, in hundredths
WeightsAsWritten(w) ==
  [skill_sim |-> [num |-> w.skill_sim, den |-> 100],
   desc_sim |-> [num |-> w.desc_sim, den |-> 100],
   sector |-> [num |-> w.sector, den |-> 100],
   location |-> [num |-> w.location, den |-> 100],
   education |-> [num |-> w.education, den |-> 100]]

\* the normalisation loop: each weight divided by the total, kept as the
\* exact fraction num/den
NormalizeWeights(w) ==
  LET total == SumOver(w, WeightKeys)
  IN [skill_sim |-> [num |-> w.skill_sim, den |-> total],
      desc_sim |-> [num |-> w.desc_sim, den |-> total],
      sector |-> [num |-> w.sector, den |-> total],
      location |-> [num |-> w.location, den |-> total],
      education |-> [num |-> w.education, den |-> total]]

\* ----------------------------------------------------- vector space build

desc_corpus(df) ==
  [i \in DOMAIN df |-> desc_analyzer(df[i].Title \o <<" ">> \o df[i].Description)]

skill_corpus(df) == [i \in DOMAIN df |-> skill_tokenizer(df[i].Skills)]

\* build_tfidf: both vectorizers fitted on the frame, each with its
\* document-term matrix (one row per row of the frame, in the frame's order).
\* ok is FALSE when either fit raises on an empty vocabulary.  The
\* max_features caps (5000, 1000) select nothing below that many terms.
build_tfidf(df) ==
  LET vd == FitVectorizer(desc_corpus(df))
      vs == FitVectorizer(skill_corpus(df))
  IN [ok |-> DOMAIN vd # {} /\ DOMAIN vs # {},
      vec_desc |-> vd,
      mat_desc |-> [i \in DOMAIN df |-> Transform(vd, desc_corpus(df)[i])],
      vec_skill |-> vs,
      mat_skill |-> [i \in DOMAIN df |-> Transform(vs, skill_corpus(df)[i])]]

\* ------------------------------------------------------- candidate texts

JoinWords(parts) == Join(parts, <<" ">>)

candidate_text_for_desc(candidate) ==
  JoinWords(
    (IF candidate.education # <<>> THEN <<candidate.education>> ELSE <<>>)
    \o (IF candidate.skills # <<>> THEN <<JoinWords(candidate.skills)>> ELSE <<>>)
    \o (IF candidate.sector # <<>> THEN <<JoinWords(candidate.sector)>> ELSE <<>>)
    \o (IF candidate.location # <<>> THEN <<JoinWords(candidate.location)>> ELSE <<>>))

candidate_text_for_skills(candidate) ==
  Join(NonEmpty([i \in DOMAIN candidate.skills |-> Strip(candidate.skills[i])]),
       <<",", " ">>)

\* --------------------------------------------------------------- signals

LowerStripAll(xs) == [i \in DOMAIN xs |-> Strip(Lower(xs[i]))]

\* a variant in which no preference matches every sector
sector_match_open(row, cand_sectors) ==
  IF cand_sectors = <<>> THEN 1000
  ELSE IF row.Sector # <<>> /\ \E s \in Range(cand_sectors) : Strip(Lower(row.Sector)) = s
       THEN 1000 ELSE 0

\* sector match (exact, case-insensitive, trimmed), in thousandths
sector_match(row, cand_sectors) ==
  IF row.Sector # <<>> /\ \E s \in Range(cand_sectors) : Strip(Lower(row.Sector)) = s
  THEN 1000 ELSE 0

intern_location_tokens(loc_str) ==
  IF loc_str = <<>> THEN <<>>
  ELSE LET parts == SplitOn(loc_str, {",", ";", "/", "|"})
       IN NonEmpty([i \in DOMAIN parts |-> Lower(Strip(parts[i]))])

\* a variant that accepts only a location equal to a token
location_match_exact(row, cand_locations) ==
  IF \E c \in Range(cand_locations) :
       \E t \in Range(intern_location_tokens(row.Location)) : c = t
  THEN 1000 ELSE 0

\* location match: some candidate location equal to, inside or around some
\* token of the posting's location
location_match(row, cand_locations) ==
  LET intern_tokens == intern_location_tokens(row.Location)
  IN IF \E c \in Range(cand_locations) : \E t \in Range(intern_tokens) :
          c = t \/ Contains(c, t) \/ Contains(t, c)
     THEN 1000 ELSE 0

\* the weighted sum, times 100: thousandths of a percent
combined_score(W, s_skill, s_desc, s_sector, s_loc, s_edu) ==
  (100 * ( W.skill_sim.num * s_skill + W.desc_sim.num * s_desc
         + W.sector.num * s_sector + W.location.num * s_loc
         + W.education.num * s_edu )) \div W.skill_sim.den

\* similarity of the candidate's text against every row of a matrix
similarities(vec, mat, tokens) ==
  LET cand_vec == Transform(vec, tokens)
  IN [i \in DOMAIN mat |-> CosineSimilarity(cand_vec, mat[i])]

NormEdu(candidate) == Strip(Lower(candidate.education))

\* the scoring loop over use_df: each row's categorical signals and score.
\* A similarity array shorter than the frame counts 0.0 for the missing rows.
score_loop(use_df, desc_sim, skill_sim, candidate, W, order) ==
  [i \in DOMAIN use_df |->
     LET row == use_df[i]
         s_skill == IF Len(skill_sim) >= i THEN skill_sim[i] ELSE 0
         s_desc == IF Len(desc_sim) >= i THEN desc_sim[i] ELSE 0
         s_sector == sector_match(row, LowerStripAll(candidate.sector))
         s_loc == location_match(row, LowerStripAll(candidate.location))
         s_edu == education_match_score(NormEdu(candidate), row.Required_Education, order)
     IN [score |-> combined_score(W, s_skill, s_desc, s_sector, s_loc, s_edu),
         sector_match |-> s_sector, location_match |-> s_loc,
         education_score |-> s_edu]]

\* the frame with its six new columns, row by row
frame_rows(use_df, loop, desc_sim, skill_sim) ==
  [i \in DOMAIN use_df |->
     [Internship_ID |-> use_df[i].Internship_ID, Title |-> use_df[i].Title,
      Skills |-> use_df[i].Skills, Sector |-> use_df[i].Sector,
      Location |-> use_df[i].Location,
      Required_Education |-> use_df[i].Required_Education,
      score |-> loop[i].score,
      skill_sim |-> IF Len(skill_sim) >= i THEN skill_sim[i] ELSE 0,
      desc_sim |-> IF Len(desc_sim) >= i THEN desc_sim[i] ELSE 0,
      sector_match |-> loop[i].sector_match,
      location_match |-> loop[i].location_match,
      education_score |-> loop[i].education_score]]

\* a variant that pads a short similarity array with 0.0 instead of raising
assign_columns_silent(use_df, loop, desc_sim, skill_sim) ==
  [ok |-> TRUE, rows |-> frame_rows(use_df, loop, desc_sim, skill_sim)]

\* the six column assignments: the lists of the loop always fit the frame;
\* a similarity array of another length makes the assignment raise
\* ValueError (ok is FALSE)
assign_columns(use_df, loop, desc_sim, skill_sim) ==
  IF Len(skill_sim) # Len(use_df) \/ Len(desc_sim) # Len(use_df)
  THEN [ok |-> FALSE, rows |-> <<>>]
  ELSE [ok |-> TRUE, rows |-> frame_rows(use_df, loop, desc_sim, skill_sim)]

\* ---------------------------------------------------------------- ranker

\* a variant that sorts on the score alone
SortKey_score(r) == <<r.score>>

SortKey(r) == <<r.score, r.skill_sim, r.sector_match, r.location_match, r.desc_sim>>

\* a > b in lexicographic order
RECURSIVE LexGreater(_, _)
LexGreater(a, b) ==
  IF a = <<>> THEN FALSE
  ELSE IF Head(a) # Head(b) THEN Head(a) > Head(b)
  ELSE LexGreater(Tail(a), Tail(b))

\* insert r after every row whose key is greater than or equal to its own
RECURSIVE InsertDesc(_, _)
InsertDesc(sorted, r) ==
  IF sorted = <<>> THEN <<r>>
  ELSE IF LexGreater(SortKey(r), SortKey(Head(sorted)))
       THEN <<r>> \o sorted
       ELSE <<Head(sorted)>> \o InsertDesc(Tail(sorted), r)

\* sort_values(by the five keys, all descending): rows with equal keys keep
\* the order they had
RECURSIVE sort_values(_)
sort_values(rows) ==
  IF rows = <<>> THEN <<>>
  ELSE InsertDesc(sort_values(SubSeq(rows, 1, Len(rows) - 1)), rows[Len(rows)])

\* head(top_k) for top_k >= 1
head(rows, top_k) == SubSeq(rows, 1, Min2(top_k, Len(rows)))

\* a variant without the fallback reason
explain_no_fallback(row) ==
  (IF row.skill_sim > 0 THEN <<"skill match">> ELSE <<>>)
  \o (IF row.sector_match > 0 THEN <<"sector match">> ELSE <<>>)
  \o (IF row.location_match > 0 THEN <<"location match">> ELSE <<>>)
  \o (IF row.education_score > 0 THEN <<"education match">> ELSE <<>>)

\* the reasons of the explanation, in their fixed order (joined with ", ")
explain(row) ==
  LET reasons ==
        (IF row.skill_sim > 0 THEN <<"skill match">> ELSE <<>>)
        \o (IF row.sector_match > 0 THEN <<"sector match">> ELSE <<>>)
        \o (IF row.location_match > 0 THEN <<"location match">> ELSE <<>>)
        \o (IF row.education_score > 0 THEN <<"education match">> ELSE <<>>)
  IN IF reasons = <<>> THEN <<"semantic match">> ELSE reasons

\* explanation added, columns of `cols` kept
with_explain(rows) ==
  [i \in DOMAIN rows |->
     [Internship_ID |-> rows[i].Internship_ID, Title |-> rows[i].Title,
      Skills |-> rows[i].Skills, Sector |-> rows[i].Sector,
      Location |-> rows[i].Location,
      Required_Education |-> rows[i].Required_Education,
      score |-> rows[i].score, explain |-> explain(rows[i]),
      skill_sim |-> rows[i].skill_sim, desc_sim |-> rows[i].desc_sim,
      education_score |-> rows[i].education_score,
      sector_match |-> rows[i].sector_match,
      location_match |-> rows[i].location_match]]

\* ----------------------------------------------------- education filter

\* a variant that wants the candidate strictly above the requirement
qualifies_strictly(row, cand_rank) == internship_required_rank(row.Required_Education) < cand_rank

qualifies(row, cand_rank) == internship_required_rank(row.Required_Education) <= cand_rank

RECURSIVE filter_rows(_, _)
filter_rows(df, cand_rank) ==
  IF df = <<>> THEN <<>>
  ELSE (IF qualifies(Head(df), cand_rank) THEN <<Head(df)>> ELSE <<>>)
       \o filter_rows(Tail(df), cand_rank)

\* ------------------------------------------------- language generation

\* What the collaborator's call comes to.  kind "none": no text (no key, a
\* network error or timeout, an HTTP error, no text part, empty text);
\* "nonjson": text that is not JSON and holds no [...] that parses;
\* "nonlist": JSON that is not an array; "list": a JSON array of entries.
\* An entry is an object (obj TRUE) with an id (0: absent or null) and a
\* rank, or something that is not an object.  A rank is an integer ("int"),
\* a number with a fraction ("float", v in tenths), a numeric string
\* ("numstr"), another string ("badstr") or absent/null ("null").

\* int(rank) of the sort key: ok FALSE when int() raises
IntOf(rank) ==
  IF rank.t = "int" THEN [ok |-> TRUE, v |-> rank.v]
  ELSE IF rank.t = "float" THEN [ok |-> TRUE, v |-> rank.v \div 10]
  ELSE IF rank.t = "numstr" THEN [ok |-> TRUE, v |-> rank.v]
  ELSE [ok |-> FALSE, v |-> 0]

\* mapped[str(id)]: the last entry of the reply with that id
Mapped(parsed, id) ==
  LET hits == {j \in DOMAIN parsed : parsed[j].id = id}
  IN parsed[CHOOSE j \in hits : \A h \in hits : h <= j]

IsMapped(parsed, id) == \E j \in DOMAIN parsed : parsed[j].id = id /\ parsed[j].id # 0

\* insert x after every item whose llm_rank is less than or equal to its own
RECURSIVE InsertByRank(_, _)
InsertByRank(sorted, x) ==
  IF sorted = <<>> THEN <<x>>
  ELSE IF x.llm_rank < Head(sorted).llm_rank
       THEN <<x>> \o sorted
       ELSE <<Head(sorted)>> \o InsertByRank(Tail(sorted), x)

\* out.sort(key=int(llm_rank, default 999)): a stable sort
RECURSIVE SortByRank(_)
SortByRank(items) ==
  IF items = <<>> THEN <<>>
  ELSE InsertByRank(SortByRank(SubSeq(items, 1, Len(items) - 1)), items[Len(items)])

NoRank == 999

\* a variant that builds its answer from the reply's entries, not the pool
llm_refine_by_reply(key, items, reply) ==
  IF ~key \/ reply.kind # "list" \/ items = <<>>
     \/ \E j \in DOMAIN reply.parsed : ~reply.parsed[j].obj
  THEN [ok |-> TRUE,
        items |-> [i \in DOMAIN items |-> [row |-> items[i], llm_reason |-> "none"]]]
  ELSE [ok |-> TRUE,
        items |-> [j \in DOMAIN reply.parsed |->
                     [row |-> [items[1] EXCEPT !.Internship_ID = reply.parsed[j].id],
                      llm_reason |-> "reason"]]]

\* llm_refine_and_explain: ok FALSE when it raises; items are the pool's
\* rows, each answer item a row with the collaborator's reason
llm_refine_and_explain(key, items, reply) ==
  LET plain == [i \in DOMAIN items |-> [row |-> items[i], llm_reason |-> "none"]] IN
  IF ~key \/ reply.kind # "list" THEN [ok |-> TRUE, items |-> plain]
  ELSE IF \E j \in DOMAIN reply.parsed : ~reply.parsed[j].obj
       THEN [ok |-> FALSE, items |-> <<>>]
  ELSE
    LET parsed == reply.parsed
        hit(i) == IsMapped(parsed, items[i].Internship_ID)
        rank(i) == IntOf(Mapped(parsed, items[i].Internship_ID).rank)
        out == [i \in DOMAIN items |->
                  [row |-> items[i],
                   llm_reason |-> IF hit(i) THEN "reason" ELSE "none",
                   llm_rank |-> IF hit(i) /\ rank(i).ok THEN rank(i).v ELSE NoRank]]
        strip(xs) == [i \in DOMAIN xs |-> [row |-> xs[i].row, llm_reason |-> xs[i].llm_reason]]
    IN IF \A i \in DOMAIN items : ~hit(i) THEN [ok |-> TRUE, items |-> strip(out)]
       ELSE IF \E i \in DOMAIN items : hit(i) /\ ~rank(i).ok
            THEN [ok |-> FALSE, items |-> <<>>]
       ELSE [ok |-> TRUE, items |-> strip(SortByRank(out))]

\* ------------------------------------------------------------- the inputs

MaxPostings == 2

MaxTopK == 2

\* which iteration order over a set of strings the interpreter has (0 or 1)
SetOrder == 0

\* the pool of the refinement call is min(PoolCap, len(df)) rows
PoolCap == 20

MkPosting(title, description, skills, sector, location, edu) ==
  [Title |-> title, Description |-> description, Skills |-> skills,
   Sector |-> sector, Location |-> location, Required_Education |-> edu]

S_py == <<"p","y">>

S_sql == <<"s","q","l">>

S_pune == <<"p","u","n","e">>

S_goa == <<"g","o","a">>

S_it == <<"i","t">>

S_hr == <<"h","r">>

\* the kinds of posting the catalogs are drawn from
Kinds ==
  { MkPosting(<<"w","e","b">>, <<"d","e","v">>, <<"p","y",","," ","s","q","l">>, S_it, <<"G","o","a",","," ","P","u","n","e">>, K_any),
    MkPosting(<<"l","a","b">>, <<"m","l">>, <<"p","y">>, S_hr, S_goa, K_phd),
    MkPosting(<<"w","e","b">>, <<"d","e","v">>, <<>>, S_it, S_pune, <<"b"," ","t","e","c","h">>),
    MkPosting(<<"p","y">>, <<"p","u","n","e">>, <<"p","y",","," ","s","q","l">>, S_hr, S_goa, <<>>) }

WithId(posting, id) ==
  [Internship_ID |-> id, Title |-> posting.Title, Description |-> posting.Description,
   Skills |-> posting.Skills, Sector |-> posting.Sector, Location |-> posting.Location,
   Required_Education |-> posting.Required_Education]

\* identifiers are unique: 1..n in row order
MkCatalog(kinds) == [i \in DOMAIN kinds |-> WithId(kinds[i], i)]

BigCatalog ==
  MkCatalog([i \in 1..(PoolCap + 1) |->
               MkPosting(<<"w","e","b">>, <<"d","e","v">>, <<"p","y",","," ","s","q","l">>, S_it, <<"G","o","a",","," ","P","u","n","e">>, K_any)])

\* the catalogs the service can start with: build_tfidf(df) succeeded
Catalogs ==
  { df \in {MkCatalog(ks) : ks \in UNION {[1..n -> Kinds] : n \in 1..MaxPostings}}
           \cup {BigCatalog} :
      build_tfidf(df).ok }

MkCandidate(education, skills, sector, location) ==
  [education |-> education, skills |-> skills, sector |-> sector, location |-> location]

EmptyCandidate == MkCandidate(<<>>, <<>>, <<>>, <<>>)

Candidates ==
  { EmptyCandidate,
    MkCandidate(<<"U","n","d","e","r","g","r","a","d","u","a","t","e">>, <<S_py>>, <<S_it>>, <<S_pune>>),
    MkCandidate(<<"P","h","D">>, <<S_py, S_sql>>, <<S_hr>>, <<>>),
    MkCandidate(<<" ">>, <<S_py>>, <<>>, <<S_pune>>) }

TopKs == (1..MaxTopK) \cup {PoolCap + 1}

Langs == {"en", "hi"}

Ranks ==
  { [t |-> "int", v |-> 1], [t |-> "float", v |-> 15], [t |-> "numstr", v |-> 1],
    [t |-> "badstr", v |-> 0], [t |-> "null", v |-> 0] }

\* id 0: no id; 99: an id no posting has
Entries ==
  {[obj |-> FALSE, id |-> 0, rank |-> [t |-> "null", v |-> 0]]}
  \cup {[obj |-> TRUE, id |-> i, rank |-> rk] : i \in {2, 99}, rk \in Ranks}

LLMReplies ==
  {[kind |-> k, parsed |-> <<>>] : k \in {"none", "nonjson", "nonlist", "list"}}
  \cup {[kind |-> "list", parsed |-> <<e>>] : e \in Entries}
  \cup {[kind |-> "list",
         parsed |-> << [obj |-> TRUE, id |-> 1, rank |-> [t |-> "int", v |-> 2]],
                       [obj |-> TRUE, id |-> 2, rank |-> [t |-> "int", v |-> 1]] >>]}

NoReply == [kind |-> "skipped", parsed |-> <<>>]

\* ---------------------------------------------------------------- state

VARIABLES
  df,               \* api.py: the shared catalog frame
  vec_desc,         \* api.py: the shared description vectorizer
  mat_desc,         \* api.py: its document-term matrix
  vec_skill,        \* api.py: the shared skill vectorizer
  mat_skill,        \* api.py: its document-term matrix
  WEIGHTS,          \* recommender.py: the normalised weight table
  GEMINI_KEY,       \* api.py: whether GEMINI_API_KEY is set
  USE_GEMINI_FLAG,  \* api.py: whether USE_GEMINI is 1/true/yes
  active,           \* the requests the clients send
  boot,             \* history: the shared objects as start-up left them
  calc,             \* a single call of one of the pure functions
  req               \* per request: position, arguments, locals, results

vars == <<df, vec_desc, mat_desc, vec_skill, mat_skill, WEIGHTS, GEMINI_KEY,
          USE_GEMINI_FLAG, active, boot, calc, req>>

config == <<WEIGHTS, GEMINI_KEY, USE_GEMINI_FLAG, active, boot, calc>>

Requests == {"r1", "r2"}

NoOutcome == [tag |-> "none", rows |-> <<>>]

Rows(rows) == [tag |-> "rows", rows |-> rows]

Raised == [tag |-> "error", rows |-> <<>>]

NoSpaces ==
  [tag |-> "none", vec_desc |-> <<>>, mat_desc |-> <<>>, vec_skill |-> <<>>, mat_skill |-> <<>>]

Idle ==
  [pc |-> "idle", call |-> "none", candidate |-> EmptyCandidate, top_k |-> 0, k |-> 0,
   lang |-> "en", refine_with_llm |-> FALSE,
   df_local |-> <<>>, filtered_df |-> <<>>, use_df |-> <<>>, spaces |-> NoSpaces,
   frame |-> <<>>, recs |-> NoOutcome, pool |-> NoOutcome, reply |-> NoReply,
   rec_list |-> <<>>, response |-> <<>>]

\* the locals of get_recommendations are dropped when it returns
NoLocals(rq) ==
  [rq EXCEPT !.df_local = <<>>, !.filtered_df = <<>>, !.use_df = <<>>,
             !.spaces = NoSpaces, !.frame = <<>>]

\* get_recommendations returns (or raises) to recommend(): the first call is
\* outside the try block, the pool call inside it
Returned(rq, out) ==
  IF rq.call = "recs"
  THEN [NoLocals(rq) EXCEPT !.recs = out,
                            !.pc = IF out.tag = "error" THEN "failed" ELSE "after_recs"]
  ELSE [NoLocals(rq) EXCEPT !.pool = out, !.pc = "refine"]

SharedSpaces ==
  [tag |-> "shared", vec_desc |-> vec_desc, mat_desc |-> mat_desc,
   vec_skill |-> vec_skill, mat_skill |-> mat_skill]

LocalSpaces(b) ==
  [tag |-> "local", vec_desc |-> b.vec_desc, mat_desc |-> b.mat_desc,
   vec_skill |-> b.vec_skill, mat_skill |-> b.mat_skill]

\* no function called yet
NoCalc == <<"none", <<>>, <<>>>>

\* the function called, its arguments and what it returned
called == calc[1]

calc_args == calc[2]

calc_out == calc[3]

\* the module-level objects: the frame, and the description space fitted on
\* `for_desc` and the skill space fitted on `for_skill` (api.py fits both on
\* the frame itself)
InitShared(catalog, for_desc, for_skill) ==
  /\ df = catalog
  /\ vec_desc = build_tfidf(for_desc).vec_desc
  /\ mat_desc = build_tfidf(for_desc).mat_desc
  /\ vec_skill = build_tfidf(for_skill).vec_skill
  /\ mat_skill = build_tfidf(for_skill).mat_skill
  /\ WEIGHTS = NormalizeWeights(WEIGHTS_raw)
  /\ calc = NoCalc
  /\ boot = [df |-> catalog,
             spaces |-> [tag |-> "shared",
                         vec_desc |-> build_tfidf(for_desc).vec_desc,
                         mat_desc |-> build_tfidf(for_desc).mat_desc,
                         vec_skill |-> build_tfidf(for_skill).vec_skill,
                         mat_skill |-> build_tfidf(for_skill).mat_skill],
             WEIGHTS |-> NormalizeWeights(WEIGHTS_raw)]

InitConfig ==
  /\ GEMINI_KEY \in BOOLEAN
  /\ USE_GEMINI_FLAG \in BOOLEAN
  /\ req = [r \in Requests |-> Idle]

\* the service after start-up (api.py 29-39), serving one request
Init ==
  /\ \E catalog \in Catalogs : InitShared(catalog, catalog, catalog)
  /\ InitConfig
  /\ active = {"r1"}

\* the same service with two requests in flight, on few inputs
ConcCatalogs ==
  { c \in Catalogs :
      /\ Len(c) = 2
      /\ \A i \in DOMAIN c : c[i].Required_Education \in {K_any, K_phd} }

ConcCandidates == {c \in Candidates : NormEdu(c) \in {K_undergraduate, K_phd}}

InitConc ==
  /\ \E catalog \in ConcCatalogs : InitShared(catalog, catalog, catalog)
  /\ GEMINI_KEY \in BOOLEAN
  /\ USE_GEMINI_FLAG = TRUE
  /\ req = [r \in Requests |-> Idle]
  /\ active = Requests

\* a posting whose skill columns repeat a skill
RepeatedSkill ==
  MkPosting(<<"w","e","b">>, <<"d","e","v">>,
            <<"p","y",","," ","p","y",","," ","p","y",","," ","s","q","l">>,
            S_it, S_goa, K_any)

PairCatalogs ==
  { MkCatalog(ks) :
      ks \in UNION {[1..n -> {RepeatedSkill} \cup {k \in Kinds : k.Sector = S_it /\ k.Required_Education = K_any}] :
                     n \in 1..2} }

\* candidates that differ in their skills only
PairCandidates ==
  {MkCandidate(<<>>, skills, <<>>, <<>>) : skills \in {<<S_py>>, <<S_py, S_sql>>}}

\* two requests whose candidates differ in one skill
InitPair ==
  /\ \E catalog \in PairCatalogs : InitShared(catalog, catalog, catalog)
  /\ GEMINI_KEY \in BOOLEAN
  /\ USE_GEMINI_FLAG = TRUE
  /\ req = [r \in Requests |-> Idle]
  /\ active = Requests

\* the frame with its last row dropped, or with its first row listed again
Resized(catalog) ==
  {MkCatalog(SubSeq(catalog, 1, Len(catalog) - 1)), MkCatalog(Append(catalog, catalog[1]))}

\* a caller holding vector spaces of another frame than the one it passes:
\* the description space, the skill space or both were fitted on `other`
InitStale ==
  /\ \E catalog \in Catalogs : \E other \in Resized(catalog) \cap Catalogs :
       \E stale \in {"desc", "skill", "both"} :
         /\ Len(catalog) <= MaxPostings
         /\ InitShared(catalog,
                       IF stale \in {"desc", "both"} THEN other ELSE catalog,
                       IF stale \in {"skill", "both"} THEN other ELSE catalog)
  /\ GEMINI_KEY \in BOOLEAN
  /\ USE_GEMINI_FLAG = TRUE
  /\ req = [r \in Requests |-> Idle]
  /\ active = {"r1"}

\* -------------------------------------------------------------- actions

\* POST /recommend arrives: the first call of get_recommendations starts
RecommendFrom(r, candidates, top_ks, langs, refines) ==
  /\ r \in active
  /\ req[r].pc = "idle"
  /\ \E candidate \in candidates, top_k \in top_ks, lang \in langs, refine \in refines :
       req' = [req EXCEPT ![r] =
                 [@ EXCEPT !.pc = "filter", !.call = "recs", !.candidate = candidate,
                           !.top_k = top_k, !.k = top_k, !.lang = lang,
                           !.refine_with_llm = refine]]
  /\ UNCHANGED <<df, vec_desc, mat_desc, vec_skill, mat_skill, config>>

Recommend(r) == RecommendFrom(r, Candidates, TopKs, Langs, BOOLEAN)

RecommendConc(r) == RecommendFrom(r, ConcCandidates, {MaxTopK}, {"en"}, {TRUE})

RecommendStale(r) == RecommendFrom(r, Candidates, TopKs, {"en"}, {TRUE})

RecommendPair(r) == RecommendFrom(r, PairCandidates, {MaxTopK}, {"en"}, {TRUE})

\* a variant that filters the caller's frame in place
df_filtered_in_place(shared, filtered_df) == filtered_df

\* the caller's frame after the call worked on df.copy(): as it was
df_after_copy(shared, filtered_df) == shared

\* a variant without the early return
nothing_eligible_ignored(filtered_df) == FALSE

\* filtered_df.empty
nothing_eligible(filtered_df) == filtered_df = <<>>

\* get_recommendations, the copy and the education filter
GR_Filter(r) ==
  /\ req[r].pc = "filter"
  /\ LET rq == req[r]
         df_local == df
         cand_rank == candidate_rank_from_string(NormEdu(rq.candidate))
         filtered_df == filter_rows(df_local, cand_rank)
     IN /\ req' = [req EXCEPT ![r] =
                     IF nothing_eligible(filtered_df)
                     THEN Returned(rq, Rows(<<>>))
                     ELSE [rq EXCEPT !.pc = "fit", !.df_local = df_local,
                                     !.filtered_df = filtered_df]]
        /\ df' = df_after_copy(df, filtered_df)
  /\ UNCHANGED <<vec_desc, mat_desc, vec_skill, mat_skill, config>>

\* a variant that re-fits the caller's vectorizers and matrices in place
shared_refitted(shared, built) == built

\* a variant that never re-fits
needs_rebuild_never(filtered_df, df_local) == FALSE

\* whether the filter removed rows
needs_rebuild(filtered_df, df_local) == Len(filtered_df) # Len(df_local)

\* the shared vector spaces after a re-fit, which builds new objects
shared_after_fit(shared, built) == shared

\* get_recommendations, the choice of vector spaces
GR_Fit(r) ==
  /\ req[r].pc = "fit"
  /\ LET rq == req[r]
         rebuild == needs_rebuild(rq.filtered_df, rq.df_local)
         built == build_tfidf(rq.filtered_df)
         after == IF rebuild /\ built.ok
                  THEN shared_after_fit(SharedSpaces, LocalSpaces(built))
                  ELSE SharedSpaces
     IN /\ req' = [req EXCEPT ![r] =
                     IF rebuild
                     THEN IF built.ok
                          THEN [rq EXCEPT !.pc = "score", !.spaces = LocalSpaces(built),
                                          !.use_df = rq.filtered_df]
                          ELSE Returned(rq, Raised)
                     ELSE [rq EXCEPT !.pc = "score",
                                     !.spaces = [NoSpaces EXCEPT !.tag = "shared"],
                                     !.use_df = rq.df_local]]
        /\ vec_desc' = after.vec_desc
        /\ mat_desc' = after.mat_desc
        /\ vec_skill' = after.vec_skill
        /\ mat_skill' = after.mat_skill
  /\ UNCHANGED <<df, config>>

\* the vector spaces a request scores against: its own, or the shared
\* objects it holds references to
SpacesOf(rq) == IF rq.spaces.tag = "shared" THEN SharedSpaces ELSE rq.spaces

\* candidate vectors, similarities, scoring loop and column assignment
score_frame(use_df, sp, candidate, W) ==
  LET desc_sim == similarities(sp.vec_desc, sp.mat_desc,
                               desc_analyzer(candidate_text_for_desc(candidate)))
      skill_sim == similarities(sp.vec_skill, sp.mat_skill,
                                skill_tokenizer(candidate_text_for_skills(candidate)))
      loop == score_loop(use_df, desc_sim, skill_sim, candidate, W, SetOrder)
  IN assign_columns(use_df, loop, desc_sim, skill_sim)

\* get_recommendations, similarities and scores
GR_Score(r) ==
  /\ req[r].pc = "score"
  /\ LET rq == req[r]
         frame == score_frame(rq.use_df, SpacesOf(rq), rq.candidate, WEIGHTS)
     IN req' = [req EXCEPT ![r] =
                  IF frame.ok
                  THEN [rq EXCEPT !.pc = "rank", !.frame = frame.rows]
                  ELSE Returned(rq, Raised)]
  /\ UNCHANGED <<df, vec_desc, mat_desc, vec_skill, mat_skill, config>>

\* sort, head(top_k), explanations, column selection
rank_rows(frame, top_k) == with_explain(head(sort_values(frame), top_k))

\* get_recommendations, the ranker
GR_Rank(r) ==
  /\ req[r].pc = "rank"
  /\ req' = [req EXCEPT ![r] = Returned(req[r], Rows(rank_rows(req[r].frame, req[r].k)))]
  /\ UNCHANGED <<df, vec_desc, mat_desc, vec_skill, mat_skill, config>>

\* get_recommendations as one function of its arguments: what a call that
\* runs alone returns (Rows) or that it raises (Raised)
get_recommendations(frame, sp, candidate, top_k, W) ==
  LET cand_rank == candidate_rank_from_string(NormEdu(candidate))
      filtered_df == filter_rows(frame, cand_rank)
      rebuild == needs_rebuild(filtered_df, frame)
      built == build_tfidf(filtered_df)
      scored == score_frame(filtered_df, IF rebuild THEN LocalSpaces(built) ELSE sp,
                            candidate, W)
  IN IF nothing_eligible(filtered_df) THEN Rows(<<>>)
     ELSE IF rebuild /\ ~built.ok THEN Raised
     ELSE IF ~scored.ok THEN Raised
     ELSE Rows(rank_rows(scored.rows, top_k))

PlainItems(rows) == [i \in DOMAIN rows |-> [row |-> rows[i], llm_reason |-> "none"]]

\* recommend() after the first call: nothing to return, or the refinement's
\* pool call, or straight to the response
AfterRecs(r) ==
  /\ req[r].pc = "after_recs"
  /\ LET rq == req[r] IN
     req' = [req EXCEPT ![r] =
               IF rq.recs.rows = <<>>
               THEN [rq EXCEPT !.pc = "done", !.response = <<>>]
               ELSE IF USE_GEMINI_FLAG /\ GEMINI_KEY /\ rq.refine_with_llm
                    THEN [rq EXCEPT !.pc = "filter", !.call = "pool",
                                    !.k = Min2(PoolCap, Len(df)),
                                    !.rec_list = PlainItems(rq.recs.rows)]
                    ELSE [rq EXCEPT !.pc = "respond",
                                    !.rec_list = PlainItems(rq.recs.rows)]]
  /\ UNCHANGED <<df, vec_desc, mat_desc, vec_skill, mat_skill, config>>

\* the refinement: the collaborator answers, llm_refine_and_explain maps the
\* answer onto the pool; anything raised in the try block is logged and dropped
Refine(r) ==
  /\ req[r].pc = "refine"
  /\ \E reply \in LLMReplies :
       LET rq == req[r]
           refined == llm_refine_and_explain(GEMINI_KEY, rq.pool.rows, reply)
       IN req' = [req EXCEPT ![r] =
                    [rq EXCEPT !.pc = "respond", !.reply = reply,
                               !.rec_list =
                                 IF rq.pool.tag = "rows" /\ refined.ok /\ refined.items # <<>>
                                 THEN SubSeq(refined.items, 1,
                                             Min2(rq.top_k, Len(refined.items)))
                                 ELSE rq.rec_list]]
  /\ UNCHANGED <<df, vec_desc, mat_desc, vec_skill, mat_skill, config>>

\* translate_text: the text as it was for "en", without a key or when the
\* collaborator gives nothing; else the collaborator's text
Translated(text, lang, translated) ==
  [text |-> text, lang |-> IF lang # "en" /\ GEMINI_KEY /\ translated THEN lang ELSE "en"]

\* the response items of recommend()
build_response(rec_list, lang, translated) ==
  [i \in DOMAIN rec_list |->
     [Internship_ID |-> rec_list[i].row.Internship_ID,
      Title |-> Translated(rec_list[i].row.Title, lang, translated),
      Location |-> rec_list[i].row.Location,
      Skills |-> rec_list[i].row.Skills,
      Sector |-> rec_list[i].row.Sector,
      score |-> rec_list[i].row.score,
      explain |-> Translated(rec_list[i].row.explain, lang, translated),
      llm_summary |-> rec_list[i].llm_reason]]

\* translation of the text fields and the response; the collaborator's
\* answers to the translation calls of one response are taken together
Respond(r) ==
  /\ req[r].pc = "respond"
  /\ \E translated \in BOOLEAN :
       req' = [req EXCEPT ![r] =
                 [@ EXCEPT !.pc = "done",
                           !.response = build_response(req[r].rec_list, req[r].lang,
                                                       translated)]]
  /\ UNCHANGED <<df, vec_desc, mat_desc, vec_skill, mat_skill, config>>

Next ==
  \E r \in Requests :
    \/ Recommend(r)
    \/ GR_Filter(r)
    \/ GR_Fit(r)
    \/ GR_Score(r)
    \/ GR_Rank(r)
    \/ AfterRecs(r)
    \/ Refine(r)
    \/ Respond(r)

Spec == Init /\ [][Next]_vars

NextConc ==
  \E r \in Requests :
    \/ RecommendConc(r)
    \/ GR_Filter(r)
    \/ GR_Fit(r)
    \/ GR_Score(r)
    \/ GR_Rank(r)
    \/ AfterRecs(r)
    \/ Refine(r)
    \/ Respond(r)

\* two concurrent requests over the shared catalog and vector spaces
SpecConc == InitConc /\ [][NextConc]_vars

NextStale ==
  \E r \in Requests :
    \/ RecommendStale(r)
    \/ GR_Filter(r)
    \/ GR_Fit(r)
    \/ GR_Score(r)
    \/ GR_Rank(r)
    \/ AfterRecs(r)
    \/ Refine(r)
    \/ Respond(r)

\* ------------------------------------------------------------ data_prep

\* a cell of the frame read from the CSV: missing (NaN), or a text
Missing == [null |-> TRUE, text |-> <<>>]

Text(t) == [null |-> FALSE, text |-> t]

\* fillna('') on the skill columns
fillna_empty(cell) == IF cell.null THEN <<>> ELSE cell.text

\* str.replace(r'\s+,', ',', regex=True): a run of spaces before a comma goes
RECURSIVE squeeze_before_comma(_)
squeeze_before_comma(s) ==
  IF s = <<>> THEN <<>>
  ELSE IF IsSpace(Head(s))
       THEN LET rest == LStrip(s)
                run == SubSeq(s, 1, Len(s) - Len(rest))
            IN IF rest # <<>> /\ Head(rest) = ","
               THEN squeeze_before_comma(rest)
               ELSE run \o squeeze_before_comma(rest)
       ELSE <<Head(s)>> \o squeeze_before_comma(Tail(s))

\* the Skills column: the skill columns joined with ', '
merge_skills(skill_cells) ==
  Strip(squeeze_before_comma(
    Join([i \in DOMAIN skill_cells |-> fillna_empty(skill_cells[i])], <<",", " ">>)))

\* astype(str): a text stays; a missing value becomes the text 'nan', or
\* stays missing where the library's string type keeps missing values
astype_str(cell, keeps_missing) ==
  IF cell.null /\ ~keeps_missing THEN Text(<<"n","a","n">>) ELSE cell

\* the characters clean keeps
Kept(c) ==
  \/ \E i \in DOMAIN LowerOfUpper : LowerOfUpper[i] = c
  \/ c \in Digits
  \/ c \in {",", " "}

\* clean: lower case, every other character a space, runs of spaces one
\* space, trimmed; '' for a missing value
clean(cell) ==
  IF cell.null THEN <<>>
  ELSE LET low == Lower(cell.text)
           kept == [i \in DOMAIN low |-> IF Kept(low[i]) THEN low[i] ELSE " "]
       IN Join(SplitWS(kept), <<" ">>)

\* the list of skills: the pieces between commas, trimmed, none empty
Skills_list(skills) ==
  LET parts == SplitOn(skills, {","})
  IN NonEmpty([i \in DOMAIN parts |-> Strip(parts[i])])

\* load_and_prep on a CSV of one row without Internship_ID column
load_and_prep(row, keeps_missing) ==
  LET cleaned(cell) == clean(astype_str(cell, keeps_missing))
      Skills == cleaned(Text(merge_skills(<<row.Skill_1, row.Skill_2>>)))
  IN [Internship_ID |-> 1,
      Title |-> cleaned(row.Title),
      Sector |-> Lower(Strip(cleaned(row.Sector))),
      Skills |-> Skills,
      Skills_list |-> Skills_list(Skills)]

\* rows of a CSV: a text column, a column lower-cased again, two skill columns
CsvRows ==
  [Title : {Missing, Text(<<"D","a","t","a"," "," ","A","n","a","l","y","s","t","!">>), Text(<<" ","M","L","/","A","I"," ">>)},
   Sector : {Missing, Text(<<" ","I","T"," ">>)},
   Skill_1 : {Missing, Text(<<"D","a","t","a"," ","A","n","a","l","y","s","i","s">>), Text(<<" ","C","+","+"," ">>)},
   Skill_2 : {Missing, Text(<<"S","Q","L">>), Text(<<"a",",","b">>)}]

\* ------------------------------------------- the pure functions, called

\* education descriptors a candidate may give
EduDescriptors ==
  { <<>>,
    <<"u","n","d","e","r","g","r","a","d","u","a","t","e">>,
    <<"p","h","d">>,
    <<"m","b","a">>,
    <<"b","t","e","c","h">>,
    <<"x","y","z">>,
    <<"B",".","T","e","c","h">> }

\* requirement texts a posting may carry
EduRequirements ==
  { <<>>,
    <<"a","n","y">>,
    <<"A","n","y"," ","G","r","a","d","u","a","t","e">>,
    <<"a","n","y"," ","d","e","g","r","e","e">>,
    <<"p","h","d">>,
    <<"b","a","/","m","b","a">>,
    <<"b","s","c">>,
    <<"1","0","t","h">>,
    <<"g","r","a","d","u","a","t","e">>,
    <<"m",".","t","e","c","h",","," ","p","h","d">> }

\* no request in flight: the functions are called on their own
InitPure ==
  /\ InitShared(<<>>, <<>>, <<>>)
  /\ GEMINI_KEY = FALSE
  /\ USE_GEMINI_FLAG = FALSE
  /\ req = [r \in Requests |-> Idle]
  /\ active = {}

Called(op, args, out) ==
  /\ called = "none"
  /\ calc' = <<op, args, out>>
  /\ UNCHANGED <<df, vec_desc, mat_desc, vec_skill, mat_skill, WEIGHTS,
                 GEMINI_KEY, USE_GEMINI_FLAG, active, boot, req>>

\* the set of the requirement's tokens is visited in either order
Call_education_match_score ==
  \E candidate_edu \in EduDescriptors, intern_req_edu \in EduRequirements :
    \E order \in {0, 1} :
      Called("education_match_score", <<candidate_edu, intern_req_edu>>,
             education_match_score(candidate_edu, intern_req_edu, order))

Call_internship_required_rank ==
  \E intern_req_edu \in EduRequirements :
    Called("internship_required_rank", <<intern_req_edu>>,
           internship_required_rank(intern_req_edu))

\* location preferences of a candidate, as given
LocationPreferences ==
  { <<>>,
    <<<<"m","u","m","b","a","i">>>>,
    <<<<"P","u","n","e"," ">>>>,
    <<<<"n","a","v","i"," ","m","u","m","b","a","i">>>>,
    <<<<"m","u","m">>>>,
    <<<<"d","e","l","h","i">>>>,
    <<<<"d","e","l","h","i">>, <<"G","o","a">>>>,
    <<<<"c","h","e","n","n","a","i">>, <<"k","o","c","h","i">>>> }

\* Location texts of a posting
LocationTexts ==
  { <<>>,
    <<"M","u","m","b","a","i",","," ","P","u","n","e">>,
    <<"m","u","m","b","a","i",";","g","o","a">>,
    <<"P","u","n","e","/","D","e","l","h","i","|","G","o","a">>,
    <<" ",","," ">>,
    <<"N","a","v","i"," ","M","u","m","b","a","i">>,
    <<"N","e","w"," ","D","e","l","h","i"," ",","," ","G","O","A">> }

\* the preferences are lower-cased and trimmed before the loop
Call_location_match ==
  \E preferred \in LocationPreferences, loc_str \in LocationTexts :
    Called("location_match", <<preferred, loc_str>>,
           location_match([Location |-> loc_str], LowerStripAll(preferred)))

\* the greatest weight tried, in the unit the weights are written in
MaxWeight == 2

\* positive weights, and the weights of the module
WeightInputs ==
  [skill_sim : 1..MaxWeight, desc_sim : 1..MaxWeight, sector : 1..MaxWeight,
   location : 1..MaxWeight, education : 1..MaxWeight] \cup {WEIGHTS_raw}

\* the module's normalisation, run on other positive weights
Call_NormalizeWeights ==
  \E w \in WeightInputs :
    Called("NormalizeWeights", <<w>>, NormalizeWeights(w))

\* the library version in use decides what astype(str) does to a missing value
Call_load_and_prep ==
  \E row \in CsvRows, keeps_missing \in BOOLEAN :
    Called("load_and_prep", <<row, keeps_missing>>, load_and_prep(row, keeps_missing))

\* education descriptors of one token, none empty
SingleTokens ==
  { <<"a","n","y">>,
    <<"p","o","s","t","g","r","a","d","u","a","t","e">>,
    <<"1","0","t","h">>,
    <<"p","h","d">>,
    <<"u","n","d","e","r","g","r","a","d","u","a","t","e">>,
    <<"m","b","a">>,
    <<"b","t","e","c","h">>,
    <<"P","h","D">>,
    <<"m","1","0">>,
    <<"x","y","z">>,
    <<"1","2","t","h">>,
    <<"d","o","c","t","o","r">>,
    <<"b","a","c","h","e","l","o","r","s">>,
    <<"g","r","a","d","u","a","t","e">> }

\* the same text ranked as a candidate's descriptor and as a requirement
Call_rank_both_sides ==
  \E text \in SingleTokens :
    Called("rank_both_sides", <<text>>,
           <<candidate_rank_from_string(text), internship_required_rank(text)>>)

NextPure ==
  \/ Call_internship_required_rank
  \/ Call_load_and_prep
  \/ Call_rank_both_sides
  \/ Call_education_match_score
  \/ Call_location_match
  \/ Call_NormalizeWeights

\* single calls of the pure functions
SpecPure == InitPure /\ [][NextPure]_vars

NextPair ==
  \E r \in Requests :
    \/ RecommendPair(r)
    \/ GR_Filter(r)
    \/ GR_Fit(r)
    \/ GR_Score(r)
    \/ GR_Rank(r)
    \/ AfterRecs(r)
    \/ Refine(r)
    \/ Respond(r)

\* two requests of candidates that differ in one skill
SpecPair == InitPair /\ [][NextPair]_vars

\* one request of a caller whose vector spaces are of another frame
SpecStale == InitStale /\ [][NextStale]_vars

\* ----------------------------------------------------------- properties

\* the postings of a frame that pass the education filter for a descriptor
Eligible(frame, education) ==
  { i \in DOMAIN frame :
      internship_required_rank(frame[i].Required_Education)
        <= candidate_rank_from_string(education) }

Ids(rows) == {rows[i].Internship_ID : i \in DOMAIN rows}

\* the filter of request rq has just run: it kept rows, or it kept none and
\* the call returned the empty list
Filtered(rq) ==
  \/ rq.pc = "fit"
  \/ rq.call = "recs" /\ rq.pc = "after_recs" /\ rq.recs.rows = <<>>

\* C1: a call of get_recommendations that is over has returned, not raised,
\* and the number of rows it returned is min(top_k, number of postings of the
\* catalog that pass the education filter for the candidate).
C1_RowCount ==
  \A r \in Requests :
    req[r].recs.tag # "none" =>
      /\ req[r].recs.tag = "rows"
      /\ Len(req[r].recs.rows)
           = Min2(req[r].top_k, Cardinality(Eligible(df, NormEdu(req[r].candidate))))

\* C2: for a candidate whose education descriptor is empty the filter keeps
\* every posting of the catalog, whatever tier the posting requires.
C2_EmptyEducationUnrestricted ==
  \A r \in Requests :
    (req[r].candidate.education = <<>> /\ Filtered(req[r])) =>
      /\ req[r].pc = "fit"
      /\ req[r].filtered_df = req[r].df_local

\* C3 as stated: the filter keeps a posting if and only if its required rank
\* is at most candidate_rank_from_string of the candidate's education as the
\* candidate gave it.
C3_KeptIffRankAsGiven ==
  \A r \in Requests :
    Filtered(req[r]) =>
      Ids(req[r].filtered_df)
        = {df[i].Internship_ID : i \in Eligible(df, req[r].candidate.education)}

\* C3: the filter keeps a posting if and only if its required rank is at most
\* candidate_rank_from_string of the candidate's education lower-cased and
\* stripped; and when that descriptor is not empty, no row a call returns has
\* a required rank above the candidate's.
C3_KeptIffRank ==
  \A r \in Requests :
    LET education == Strip(Lower(req[r].candidate.education)) IN
    /\ Filtered(req[r]) =>
         Ids(req[r].filtered_df) = {df[i].Internship_ID : i \in Eligible(df, education)}
    /\ education # <<>> =>
         \A out \in {req[r].recs, req[r].pool} :
           \A id \in Ids(out.rows) :
             \A i \in DOMAIN df :
               df[i].Internship_ID = id =>
                 internship_required_rank(df[i].Required_Education)
                   <= candidate_rank_from_string(education)

\* a candidate with a descriptor got rows back while the filter had dropped
\* a posting of the catalog
C3_Witness ==
  \E r \in Requests :
    /\ Strip(Lower(req[r].candidate.education)) # <<>>
    /\ Cardinality(Eligible(df, Strip(Lower(req[r].candidate.education)))) < Len(df)
    /\ req[r].recs.rows # <<>>

\* the five-part sort key of a returned row
Key(row) == <<row.score, row.skill_sim, row.sector_match, row.location_match, row.desc_sim>>

\* lexicographic order on the keys, written out
KeyGreater(a, b) ==
  \E n \in 1..5 : a[n] > b[n] /\ \A m \in 1..(n - 1) : a[m] = b[m]

C5_Aligned ==
  \A r \in Requests :
    req[r].pc = "score" =>
      LET rq == req[r]
          sp == SpacesOf(rq)
      IN /\ Len(rq.filtered_df) < Len(rq.df_local) =>
              /\ rq.use_df = rq.filtered_df
              /\ sp.tag = "local"
              /\ sp.vec_desc = FitVectorizer(desc_corpus(rq.filtered_df))
              /\ sp.vec_skill = FitVectorizer(skill_corpus(rq.filtered_df))
         /\ Len(sp.mat_desc) = Len(rq.use_df)
         /\ Len(sp.mat_skill) = Len(rq.use_df)
         /\ \A i \in DOMAIN rq.use_df :
              /\ sp.mat_desc[i] = Transform(sp.vec_desc, desc_corpus(rq.use_df)[i])
              /\ sp.mat_skill[i] = Transform(sp.vec_skill, skill_corpus(rq.use_df)[i])

\* a call is about to score after its filter removed a posting
C5_Witness ==
  \E r \in Requests :
    /\ req[r].pc = "score"
    /\ req[r].filtered_df # <<>>
    /\ Len(req[r].filtered_df) < Len(req[r].df_local)

\* the vector spaces fitted on the catalog itself
FittedOn(frame) == [LocalSpaces(build_tfidf(frame)) EXCEPT !.tag = "shared"]

\* a matrix the caller passed has another number of rows than the catalog
Mismatched == Len(mat_desc) # Len(df) \/ Len(mat_skill) # Len(df)

\* C6 as stated: a call given a description or skill matrix whose row count
\* differs from the catalog's number of postings fails with an error.
C6_FailsFast ==
  \A r \in Requests :
    (Mismatched /\ req[r].recs.tag # "none") => req[r].recs.tag = "error"

\* C6: a call given a matrix whose row count differs from the catalog's
\* raises when the filter removes no posting; when the filter removes a
\* posting the call ignores the matrices given and returns what it returns
\* with spaces fitted on the catalog; it never returns rows scored from the
\* mismatched matrix or from defaulted similarities.
C6_NoMisalignedScores ==
  \A r \in Requests :
    (Mismatched /\ req[r].recs.tag # "none") =>
      LET eligible == Eligible(df, NormEdu(req[r].candidate)) IN
      /\ Cardinality(eligible) = Len(df) => req[r].recs.tag = "error"
      /\ req[r].recs.tag = "rows" =>
           req[r].recs = get_recommendations(df, FittedOn(df), req[r].candidate,
                                             req[r].top_k, WEIGHTS)

\* a call given mismatched matrices has raised at the column assignment
C6_Witness ==
  \E r \in Requests :
    /\ Mismatched
    /\ req[r].recs.tag = "error"
    /\ Cardinality(Eligible(df, NormEdu(req[r].candidate))) = Len(df)

\* what a call of request rq returns when it runs alone on the objects
\* start-up left
Alone(rq, top_k) ==
  get_recommendations(boot.df, boot.spaces, rq.candidate, top_k, boot.WEIGHTS)

\* C7: the shared catalog, the shared vector spaces and the weight table stay
\* as start-up left them, and under every interleaving each call of each
\* request returns what the same call returns when it runs alone.
C7_Isolation ==
  /\ df = boot.df
  /\ SharedSpaces = boot.spaces
  /\ WEIGHTS = boot.WEIGHTS
  /\ \A r \in Requests :
       /\ req[r].recs.tag # "none" => req[r].recs = Alone(req[r], req[r].top_k)
       /\ req[r].pool.tag # "none" =>
            req[r].pool = Alone(req[r], Min2(PoolCap, Len(boot.df)))

\* two calls are in flight together: one is about to score in vector spaces
\* it re-fitted for itself, the other in the shared ones
C7_Witness ==
  /\ req["r1"].pc = "score" /\ req["r1"].spaces.tag = "local"
  /\ req["r2"].pc = "score" /\ req["r2"].spaces.tag = "shared"

\* the collaborator was not asked, gave nothing usable, or gave a list with an
\* entry that is no object or whose rank is no integer
Unusable(reply) ==
  \/ reply.kind \in {"skipped", "none", "nonjson", "nonlist"}
  \/ \E j \in DOMAIN reply.parsed :
       ~reply.parsed[j].obj \/ reply.parsed[j].rank.t # "int"

\* the ranking a list of rows or response items carries
Ranking(items) ==
  [i \in DOMAIN items |-> <<items[i].Internship_ID, items[i].score>>]

\* C8: when the collaborator is disabled, without key, fails, gives no text,
\* gives text that is not JSON, or gives malformed JSON, the response of
\* /recommend is the core's own top_k ranking in the core's order.
C8_CoreRankingStands ==
  \A r \in Requests :
    (req[r].pc = "done" /\ Unusable(req[r].reply)) =>
      Ranking(req[r].response) = Ranking(req[r].recs.rows)

C10_EmptyCandidateEmptyResult ==
  \A r \in Requests :
    (req[r].candidate = EmptyCandidate /\ req[r].recs.tag # "none") =>
      req[r].recs = Rows(<<>>)

\* the postings of a frame that require rank 0, in the frame's order
TierZero(frame) ==
  SelectSeq(frame, LAMBDA p : internship_required_rank(p.Required_Education) = 0)

\* C10: for a candidate with no education, skills, sectors and locations a
\* call returns the first min(top_k, n) of the n postings that require rank
\* 0, in catalog order, each with similarities and categorical matches 0,
\* education score 1, score 100 times the education weight and the
\* explanation "education match"; it returns the empty list only when no
\* posting requires rank 0; and it raises only when some but not all postings
\* require rank 0 and the re-fit on those meets an empty vocabulary.
C10_EmptyCandidateTierZero ==
  \A r \in Requests :
    (req[r].candidate = EmptyCandidate /\ req[r].recs.tag # "none") =>
      LET zero == TierZero(df)
          rows == req[r].recs.rows
      IN IF req[r].recs.tag = "error"
         THEN /\ zero # <<>>
              /\ Len(zero) < Len(df)
              /\ ~build_tfidf(zero).ok
         ELSE /\ Len(rows) = Min2(req[r].top_k, Len(zero))
              /\ \A i \in DOMAIN rows :
                   /\ rows[i].Internship_ID = zero[i].Internship_ID
                   /\ rows[i].skill_sim = 0 /\ rows[i].desc_sim = 0
                   /\ rows[i].sector_match = 0 /\ rows[i].location_match = 0
                   /\ rows[i].education_score = 1000
                   /\ rows[i].score * WEIGHTS.education.den
                        = 100000 * WEIGHTS.education.num
                   /\ rows[i].explain = <<"education match">>

\* a candidate with nothing filled in got a posting back
C10_Witness ==
  \E r \in Requests :
    /\ req[r].candidate = EmptyCandidate
    /\ req[r].recs.rows # <<>>
    /\ Len(TierZero(df)) < Len(df)

\* C11: while no posting of the catalog passes the education filter for a
\* request's candidate, the request never fits or scores anything, its call
\* returns the empty list without raising, and /recommend answers [].
C11_NothingEligible ==
  \A r \in Requests :
    (r \in active /\ Eligible(df, NormEdu(req[r].candidate)) = {}) =>
      /\ req[r].pc \in {"idle", "filter", "after_recs", "done"}
      /\ req[r].use_df = <<>> /\ req[r].spaces = NoSpaces /\ req[r].frame = <<>>
      /\ req[r].pc \in {"after_recs", "done"} => req[r].recs = Rows(<<>>)
      /\ req[r].pool = NoOutcome
      /\ req[r].pc = "done" => req[r].response = <<>>

\* a catalog whose only posting requires 'phd' has answered an
\* 'undergraduate' candidate with the empty list
C11_Witness ==
  \E r \in Requests :
    /\ Len(df) = 1
    /\ df[1].Required_Education = K_phd
    /\ NormEdu(req[r].candidate) = K_undergraduate
    /\ req[r].recs = Rows(<<>>)
    /\ req[r].pc = "done"

\* C12: when one candidate is another with one more skill, a skill that a
\* posting lists, and both have their results for the same catalog, that
\* posting's score for the candidate with the added skill is not lower.
C12_SkillMonotone ==
  \A r1, r2 \in Requests :
    \A t \in {S_py, S_sql} :
      ( /\ req[r2].candidate
             = [req[r1].candidate EXCEPT !.skills = Append(@, t)]
        /\ t \notin Range(req[r1].candidate.skills)
        /\ req[r1].recs.tag = "rows" /\ req[r2].recs.tag = "rows" ) =>
        \A i \in DOMAIN req[r1].recs.rows, j \in DOMAIN req[r2].recs.rows :
          LET before == req[r1].recs.rows[i]
              after == req[r2].recs.rows[j]
          IN ( /\ before.Internship_ID = after.Internship_ID
               /\ t \in Range(skill_tokenizer(Lower(before.Skills))) ) =>
               after.score >= before.score

\* the requirement texts that ask for nothing
Unrestricted == {<<>>, K_any, K_any_graduate, K_any_degree}

\* C13: every grade education_match_score computes is 0, 0.5, 0.8 or 1.0,
\* and it is 1.0 whenever the requirement is empty, 'any', 'any graduate' or
\* 'any degree', or the candidate's descriptor is empty.
C13_Grades ==
  called = "education_match_score" =>
    /\ calc_out \in {0, 500, 800, 1000}
    /\ ( \/ Strip(Lower(calc_args[2])) \in Unrestricted
         \/ calc_args[1] = <<>> ) => calc_out = 1000

\* a candidate without descriptor was graded 1.0 against a 'phd' requirement
C13_Witness ==
  /\ called = "education_match_score"
  /\ calc_args[1] = <<>>
  /\ calc_args[2] = K_phd
  /\ calc_out = 1000

\* C14: internship_required_rank is 0 for a requirement that is empty,
\* 'any', 'any graduate' or 'any degree', and for every other text the
\* greatest token_to_rank of the text's tokens.
C14_RequiredRank ==
  called = "internship_required_rank" =>
    LET text == calc_args[1]
        ranks == {token_to_rank(t) : t \in internship_edu_tokens(text)}
    IN IF Strip(Lower(text)) \in Unrestricted
       THEN calc_out = 0
       ELSE ranks # {} => calc_out \in ranks /\ \A n \in ranks : n <= calc_out

\* C15: when a field of the candidate (education, skills, sectors,
\* locations) is empty, get_recommendations raises no exception and the
\* signal that field feeds is zero for every posting returned; in particular
\* sector_match is 0 for every posting when no sector is preferred.
C15_EmptyFieldContributesZero ==
  \A r \in Requests :
    req[r].recs.tag # "none" =>
      LET c == req[r].candidate
          rows == req[r].recs.rows
          silent(signal) == \A i \in DOMAIN rows : rows[i][signal] = 0
      IN /\ ( \/ c.education = <<>> \/ c.skills = <<>>
              \/ c.sector = <<>> \/ c.location = <<>> ) => req[r].recs.tag # "error"
         /\ c.skills = <<>> => silent("skill_sim")
         /\ c.sector = <<>> => silent("sector_match")
         /\ c.location = <<>> => silent("location_match")
         /\ c.education = <<>> => silent("education_score")

\* C15: a call for a candidate with an empty field raises only when the
\* postings that pass the filter are fewer than the catalog and the re-fit on
\* them meets an empty vocabulary; the returned postings have skill_sim 0
\* when no skill is given, sector_match 0 when no sector is preferred and
\* location_match 0 when no location is preferred; when no education is
\* given they all require rank 0 and have education_score 1.
C15_EmptyFields ==
  \A r \in Requests :
    req[r].recs.tag # "none" =>
      LET c == req[r].candidate
          rows == req[r].recs.rows
          kept == Eligible(df, NormEdu(c))
          silent(signal) == \A i \in DOMAIN rows : rows[i][signal] = 0
      IN /\ ( /\ \/ c.education = <<>> \/ c.skills = <<>>
                 \/ c.sector = <<>> \/ c.location = <<>>
              /\ req[r].recs.tag = "error" ) =>
                /\ kept # DOMAIN df
                /\ ~build_tfidf(SelectSeq(df, LAMBDA p : p.Internship_ID \in kept)).ok
         /\ c.skills = <<>> => silent("skill_sim")
         /\ c.sector = <<>> => silent("sector_match")
         /\ c.location = <<>> => silent("location_match")
         /\ c.education = <<>> =>
              \A i \in DOMAIN rows :
                /\ rows[i].education_score = 1000
                /\ internship_required_rank(rows[i].Required_Education) = 0

\* a candidate who prefers no location got a posting back, its location
\* signal 0, from a catalog with a located posting
C15_Witness ==
  \E r \in Requests :
    /\ req[r].candidate.location = <<>>
    /\ req[r].candidate.education # <<>>
    /\ req[r].recs.rows # <<>>
    /\ req[r].recs.rows[1].location_match = 0
    /\ req[r].recs.rows[1].Location # <<>>

\* the four reasons in their fixed order, each with the signal it reports
ReasonOrder ==
  << <<"skill match", "skill_sim">>, <<"sector match", "sector_match">>,
     <<"location match", "location_match">>,
     <<"education match", "education_score">> >>

\* C16: the explanation of every returned posting lists, in the order skill
\* match, sector match, location match, education match, exactly the reasons
\* whose signal is strictly positive; it is "semantic match" alone exactly
\* when none of the four signals is positive; and it is never empty.
C16_Explanation ==
  \A r \in Requests :
    \A i \in DOMAIN req[r].recs.rows :
      LET row == req[r].recs.rows[i]
          positive == SelectSeq(ReasonOrder, LAMBDA p : row[p[2]] > 0)
      IN /\ row.explain # <<>>
         /\ positive # <<>> => row.explain = [j \in DOMAIN positive |-> positive[j][1]]
         /\ positive = <<>> <=> row.explain = <<"semantic match">>

\* a posting without any positive signal was returned next to one with
\* more than one reason
C16_Witness ==
  \E r \in Requests :
    /\ \E i \in DOMAIN req[r].recs.rows :
         req[r].recs.rows[i].explain = <<"semantic match">>
    /\ \E i \in DOMAIN req[r].recs.rows :
         Len(req[r].recs.rows[i].explain) >= 2

\* the pieces of a text between the separators , ; / |
RECURSIVE Pieces(_)
Pieces(text) ==
  IF \A i \in DOMAIN text : text[i] \notin {",", ";", "/", "|"} THEN <<text>>
  ELSE LET cut == CHOOSE i \in DOMAIN text :
                    /\ text[i] \in {",", ";", "/", "|"}
                    /\ \A j \in 1..(i - 1) : text[j] \notin {",", ";", "/", "|"}
       IN <<SubSeq(text, 1, cut - 1)>> \o Pieces(SubSeq(text, cut + 1, Len(text)))

\* a is a contiguous part of b
PartOf(a, b) == \E i \in 0..(Len(b) - Len(a)) : SubSeq(b, i + 1, i + Len(a)) = a

\* C17: location_match is 1.0 if and only if some preferred location of the
\* candidate (case-insensitive, trimmed) is equal to, a substring of or a
\* superstring of some non-empty trimmed lower-case piece of the posting's
\* location split on comma, semicolon, slash or pipe, and 0.0 otherwise;
\* ['mumbai'] against 'Mumbai, Pune' gives 1.0.
C17_LocationMatch ==
  called = "location_match" =>
    LET preferred == {Strip(Lower(c)) : c \in Range(calc_args[1])}
        tokens == {Strip(Lower(p)) : p \in Range(Pieces(calc_args[2]))} \ {<<>>}
        related == \E c \in preferred : \E t \in tokens :
                     c = t \/ PartOf(c, t) \/ PartOf(t, c)
    IN /\ calc_out \in {0, 1000}
       /\ calc_out = 1000 <=> related
       /\ ( calc_args[1] = <<<<"m","u","m","b","a","i">>>>
            /\ calc_args[2] = <<"M","u","m","b","a","i",","," ","P","u","n","e">> )
            => calc_out = 1000

\* a preference that is only a part of a token matched
C17_Witness ==
  /\ called = "location_match"
  /\ calc_args[1] = <<<<"m","u","m">>>>
  /\ calc_args[2] = <<"N","a","v","i"," ","M","u","m","b","a","i">>
  /\ calc_out = 1000

\* values a signal takes, in thousandths: the ends of [0, 1] and points inside
SignalValues == {0, 500, 1000}

\* C18: the normalised weights of any positive weights sum to 1, and the
\* combined score computed with them from signals in [0, 1] lies in [0, 100].
C18_WeightsSumToOne ==
  called = "NormalizeWeights" =>
    LET W == calc_out
        total == W.skill_sim.den
    IN /\ total > 0
       /\ \A k \in WeightKeys : W[k].den = total /\ W[k].num > 0
       /\ SumOver([k \in WeightKeys |-> W[k].num], WeightKeys) = total
       /\ \A a, b, c, d, e \in SignalValues :
            /\ combined_score(W, a, b, c, d, e) >= 0
            /\ combined_score(W, a, b, c, d, e) <= 100000
       /\ combined_score(W, 1000, 1000, 1000, 1000, 1000) = 100000

\* weights that do not sum to 1 as written were normalised
C18_Witness ==
  /\ called = "NormalizeWeights"
  /\ SumOver(calc_args[1], WeightKeys) # 100
  /\ calc_out.skill_sim.num < calc_out.skill_sim.den
  /\ calc_out.skill_sim.den = SumOver(calc_args[1], WeightKeys)

\* C19: the normalised weight of skill similarity is strictly greater than
\* each of the other four, and a posting with skill_sim 1 and every other
\* signal 0 scores strictly higher than one with skill_sim 0 and every other
\* signal 1.
C19_SkillDominates ==
  /\ \A k \in WeightKeys \ {"skill_sim"} :
       WEIGHTS.skill_sim.num * WEIGHTS[k].den > WEIGHTS[k].num * WEIGHTS.skill_sim.den
  /\ combined_score(WEIGHTS, 1000, 0, 0, 0, 0)
       > combined_score(WEIGHTS, 0, 1000, 1000, 1000, 1000)

\* a posting ahead in skill similarity alone was returned above a posting
\* that matches the preferred sector
C19_Witness ==
  \E r \in Requests :
    LET rows == req[r].recs.rows
    IN /\ Len(rows) >= 2
       /\ rows[1].skill_sim > rows[2].skill_sim
       /\ rows[1].sector_match < rows[2].sector_match
       /\ rows[1].location_match <= rows[2].location_match
       /\ rows[1].education_score <= rows[2].education_score
       /\ rows[1].score > rows[2].score

\* only lowercase letters, digits, commas and single spaces, none at an end
Cleaned(text) ==
  /\ \A i \in DOMAIN text : Kept(text[i])
  /\ \A i \in 1..(Len(text) - 1) : ~(text[i] = " " /\ text[i + 1] = " ")
  /\ text # <<>> => text[1] # " " /\ text[Len(text)] # " "

\* C20: load_and_prep maps a missing value of a text column to the empty
\* string and missing skills to the empty string and an empty Skills_list,
\* and every cleaned value has only lowercase letters, digits, commas and
\* single spaces, with no space at either end.
C20_MissingToEmpty ==
  called = "load_and_prep" =>
    LET row == calc_args[1]
        out == calc_out
    IN /\ row.Title.null => out.Title = <<>>
       /\ row.Sector.null => out.Sector = <<>>
       /\ (row.Skill_1.null /\ row.Skill_2.null) =>
            out.Skills = <<>> /\ out.Skills_list = <<>>
       /\ Cleaned(out.Title) /\ Cleaned(out.Sector) /\ Cleaned(out.Skills)

\* C21: for every non-empty education descriptor of one token,
\* candidate_rank_from_string and internship_required_rank give the same
\* rank, so that a posting requiring the candidate's own descriptor is
\* eligible.
C21_SameRankBothSides ==
  called = "rank_both_sides" =>
    /\ calc_out[1] = calc_out[2]
    /\ calc_out[2] <= calc_out[1]

\* C22: whatever the collaborator answers, the response of /recommend has at
\* most top_k items, each the posting of the catalog with that identifier,
\* each a posting that passes the education filter for the candidate, and
\* none twice.
C22_ResponseWithinPool ==
  \A r \in Requests :
    req[r].pc = "done" =>
      LET response == req[r].response
          kept == Eligible(df, NormEdu(req[r].candidate))
      IN /\ Len(response) <= req[r].top_k
         /\ \A i \in DOMAIN response :
              \E n \in kept :
                /\ df[n].Internship_ID = response[i].Internship_ID
                /\ df[n].Skills = response[i].Skills
                /\ df[n].Sector = response[i].Sector
                /\ df[n].Location = response[i].Location
         /\ \A i, j \in DOMAIN response :
              response[i].Internship_ID = response[j].Internship_ID => i = j

\* the collaborator's re-ordering was applied: the first item of the response
\* carries its reason and is not the posting the core ranked first
C22_Witness ==
  \E r \in Requests :
    /\ req[r].pc = "done"
    /\ req[r].reply.kind = "list"
    /\ req[r].reply.parsed # <<>>
    /\ req[r].response # <<>>
    /\ req[r].response[1].llm_summary = "reason"
    /\ req[r].response[1].Internship_ID # req[r].recs.rows[1].Internship_ID

====
